---- MODULE Spec2Model ----
(***************************************************************************)
(* A model of cbc-sl: src/src/main.rs (the command line tool: identifier   *)
(* validation and resolution, the order / SMIL / master playlist pipeline, *)
(* the listing path, the proxy rewriting) and src/src/api.rs (Node, the    *)
(* content item of the GraphQL generation).                                *)
(*                                                                         *)
(* Text is modelled as a sequence of one-character strings, so that find,  *)
(* replacen, contains and the regular expression act on characters as the  *)
(* code's do.  URLs handed to the url crate are sequences of tokens, "/"   *)
(* and "?" being tokens of their own.  A Result is a record of a kind      *)
(* ("Ok", "Err", "Panic", or "NotRun" before the call) and a value.        *)
(***************************************************************************)
EXTENDS Integers, Sequences, FiniteSets, TLC

VARIABLES
    \* the identifier functions
    input,           \* the text given as ID-OR-URL
    validated,       \* the result of probably_cbc(input)
    cbc_id,          \* the result of parse_cbc_id(input)
    node_url,        \* Node::url of a content item
    node_id,         \* the result of Node::proper_id
    \* the proxy rewriting
    proxy_parts,     \* the scheme and host:port the proxy argument was built from
    proxy,           \* Args::proxy, the text of the -p argument
    ureq_out,        \* successive results of proxy_url_ureq, the first on proxy
    streamlink_out,  \* successive results of proxy_url_streamlink
    \* the master playlist
    master_playlist, \* the URL of the master playlist (the src of the SMIL video)
    playlist,        \* the master playlist document fetched from it
    best,            \* the result of parse_master_playlist(playlist)
    stream,          \* the result of get_best_stream(master_playlist, playlist)
    \* the listing of an item
    item,            \* a content item of a listing response
    now,             \* the clock, in milliseconds
    tz,              \* the offset of the local time zone from UTC, in milliseconds
    node_human,      \* the result of Node::to_human on the item
    mpx_human,       \* the result of MpxItem::to_human on the item
    \* a run of main
    pc,              \* the place main has reached
    args,            \* Args, the parsed command line
    agent,           \* the proxy of the ureq Agent
    requests,        \* the HTTP requests made so far, in order
    id,              \* the result of parse_cbc_id on the argument
    bistro,          \* the answer of the order endpoint
    desc,            \* the asset descriptor picked from it
    listing,         \* the answer of the GraphQL endpoint, as received
    mpx_items,       \* the items of a listing still to print
    stdout,          \* the lines printed
    spawned,         \* the streamlink processes run
    stat,            \* the exit status of streamlink
    exit             \* how the process ended, and its exit code

id_vars == <<input, validated, cbc_id, node_url, node_id>>
proxy_vars == <<proxy_parts, proxy, ureq_out, streamlink_out>>

playlist_vars == <<master_playlist, playlist, best, stream>>

human_vars == <<item, now, tz, node_human, mpx_human>>

main_vars ==
    <<pc, args, agent, requests, id, bistro, desc, listing, mpx_items, stdout, spawned, stat, exit>>

vars == <<id_vars, proxy_vars, playlist_vars, human_vars, main_vars>>

(***************************************************************************)
(* Bounds of the model.                                                    *)
(***************************************************************************)
\* the longest numeric identifier enumerated in full
MaxIdLen == 3
\* the most variant streams of a master playlist
MaxVariants == 3
\* the most items of an order response, and of a listing response
MaxOrderItems == 2
MaxItems == 2
\* how many times in a row a proxy rewriting is applied to its own output
MaxApply == 2

(***************************************************************************)
(* Result and Option.                                                      *)
(***************************************************************************)
Ok(v) == [kind |-> "Ok", v |-> v]
Err(m) == [kind |-> "Err", v |-> m]
Panic(m) == [kind |-> "Panic", v |-> m]
NotRun == [kind |-> "NotRun", v |-> "-"]
Some(v) == [kind |-> "Some", v |-> v]
None == [kind |-> "None"]

(***************************************************************************)
(* str: the operations of the standard library the code uses.              *)
(***************************************************************************)
\* pat occurs in s at position i
MatchAt(s, pat, i) ==
    /\ i >= 1
    /\ i + Len(pat) - 1 <= Len(s)
    /\ \A k \in 1..Len(pat) : s[i + k - 1] = pat[k]

\* str::find: the position of the first occurrence of pat in s, 0 for None
Find(s, pat) ==
    LET hits == {i \in 1..(Len(s) + 1) : MatchAt(s, pat, i)}
    IN  IF hits = {} THEN 0 ELSE CHOOSE i \in hits : \A j \in hits : i <= j

\* str::rfind: the position of the last occurrence of pat in s, 0 for None
RFind(s, pat) ==
    LET hits == {i \in 1..(Len(s) + 1) : MatchAt(s, pat, i)}
    IN  IF hits = {} THEN 0 ELSE CHOOSE i \in hits : \A j \in hits : i >= j

\* str::contains
Contains(s, pat) == Find(s, pat) # 0

\* str::replacen(pat, to, 1): the first occurrence of pat replaced by to
Replacen1(s, pat, to) ==
    LET i == Find(s, pat)
    IN  IF i = 0 THEN s
        ELSE SubSeq(s, 1, i - 1) \o to \o SubSeq(s, i + Len(pat), Len(s))

\* char::is_ascii_digit
Digits == {"0", "1", "2", "3", "4", "5", "6", "7", "8", "9"}

DigitValue(c) ==
    CASE c = "0" -> 0 [] c = "1" -> 1 [] c = "2" -> 2 [] c = "3" -> 3
      [] c = "4" -> 4 [] c = "5" -> 5 [] c = "6" -> 6 [] c = "7" -> 7
      [] c = "8" -> 8 [] c = "9" -> 9

(***************************************************************************)
(* u64.  A value is held as its decimal digits without leading zeros (one  *)
(* "0" for zero): the form Display prints.  from_str reads the digits and  *)
(* fails with PosOverflow past u64::MAX.                                   *)
(***************************************************************************)
U64Max == <<"1", "8", "4", "4", "6", "7", "4", "4", "0", "7", "3", "7", "0", "9", "5", "5", "1", "6", "1", "5">>

RECURSIVE StripZeros(_)
StripZeros(d) ==
    IF Len(d) > 1 /\ d[1] = "0" THEN StripZeros(Tail(d)) ELSE d

\* a <= b for two digit texts of one length
RECURSIVE DigitsLeq(_, _)
DigitsLeq(a, b) ==
    IF a = <<>> THEN TRUE
    ELSE IF DigitValue(a[1]) # DigitValue(b[1]) THEN DigitValue(a[1]) < DigitValue(b[1])
    ELSE DigitsLeq(Tail(a), Tail(b))

FitsU64(d) ==
    LET c == StripZeros(d)
    IN  Len(c) < Len(U64Max) \/ (Len(c) = Len(U64Max) /\ DigitsLeq(c, U64Max))

\* <u64 as FromStr>::from_str on a text of ASCII digits
ParseU64(d) ==
    IF d = <<>> THEN Err("cannot parse integer from empty string")
    ELSE IF \E i \in 1..Len(d) : d[i] \notin Digits THEN Err("invalid digit found in string")
    ELSE IF FitsU64(d) THEN Ok(StripZeros(d))
    ELSE Err("number too large to fit in target type")

(***************************************************************************)
(* The proxy rewriting, main.rs 360-382.                                   *)
(***************************************************************************)
Socks4 == <<"s", "o", "c", "k", "s", "4", ":">>
Socks4a == <<"s", "o", "c", "k", "s", "4", "a", ":">>
Socks5 == <<"s", "o", "c", "k", "s", "5", ":">>
Socks5h == <<"s", "o", "c", "k", "s", "5", "h", ":">>
SchemeSep == <<":", "/", "/">>
SlashSlash == <<"/", "/">>

proxy_url_ureq(spec) ==
    LET s1 == Replacen1(Replacen1(spec, Socks5h, Socks5), Socks4, Socks4a)
    IN  IF ~Contains(s1, SchemeSep) THEN Socks5 \o SlashSlash \o s1 ELSE s1

proxy_url_streamlink(spec) ==
    LET s1 == Replacen1(Replacen1(spec, Socks5, Socks5h), Socks4, Socks4a)
    IN  IF ~Contains(s1, SchemeSep) THEN Socks5h \o SlashSlash \o s1 ELSE s1

\* the schemes a proxy specification may carry; <<>> is no scheme
ProxySchemes == {<<>>, Socks4, Socks4a, Socks5, Socks5h}

\* what follows the scheme: "//" as in a URL, or nothing
ProxySeps == {SlashSlash, <<>>}

\* host:port parts; a host may bear any name, that of a protocol included
HostPorts ==
    { <<"1", ".", "2", ".", "3", ".", "4", ":", "1", "0", "8", "0">>,
      <<"p", "x", ":", "9">>,
      <<"s", "o", "c", "k", "s", "4", ":", "9">>,
      <<"s", "o", "c", "k", "s", "5", ":", "9">>,
      <<"s", "o", "c", "k", "s", "5", "h", ":", "9">> }

ProxyParts ==
    { p \in [scheme : ProxySchemes, sep : ProxySeps, hostport : HostPorts] :
        p.scheme = <<>> => p.sep = <<>> }

ProxyText(p) == p.scheme \o p.sep \o p.hostport

\* the proxy rewriting: every specification
ProxyInit ==
    /\ proxy_parts \in ProxyParts
    /\ proxy = ProxyText(proxy_parts)
    /\ ureq_out = <<>>
    /\ streamlink_out = <<>>
    /\ input = <<>>
    /\ node_url = <<>>
    /\ validated = NotRun
    /\ cbc_id = NotRun
    /\ node_id = NotRun
    /\ master_playlist = <<>>
    /\ playlist = NotRun
    /\ best = NotRun
    /\ stream = NotRun
    /\ item = NotRun
    /\ now = 0
    /\ tz = 0
    /\ node_human = NotRun
    /\ mpx_human = NotRun
    /\ pc = "idle"
    /\ args = NotRun
    /\ agent = NotRun
    /\ requests = <<>>
    /\ id = NotRun
    /\ bistro = NotRun
    /\ desc = NotRun
    /\ mpx_items = <<>>
    /\ stdout = <<>>
    /\ spawned = <<>>
    /\ stat = NotRun
    /\ listing = NotRun
    /\ exit = NotRun

\* proxy_url_ureq applied to the argument, then to its own result
ProxyUrlUreq ==
    /\ Len(ureq_out) < MaxApply
    /\ ureq_out' = Append(ureq_out,
            proxy_url_ureq(IF ureq_out = <<>> THEN proxy ELSE ureq_out[Len(ureq_out)]))
    /\ UNCHANGED <<proxy_parts, proxy, streamlink_out, id_vars, playlist_vars, human_vars, main_vars>>

\* proxy_url_streamlink applied to the argument, then to its own result
ProxyUrlStreamlink ==
    /\ Len(streamlink_out) < MaxApply
    /\ streamlink_out' = Append(streamlink_out,
            proxy_url_streamlink(
                IF streamlink_out = <<>> THEN proxy
                ELSE streamlink_out[Len(streamlink_out)]))
    /\ UNCHANGED <<proxy_parts, proxy, ureq_out, id_vars, playlist_vars, human_vars, main_vars>>

ProxyNext == ProxyUrlUreq \/ ProxyUrlStreamlink

(***************************************************************************)
(* The identifier, main.rs 25-26, 336-338, 385-399, and api.rs 57-59.      *)
(***************************************************************************)
\* the literal part of ID_REGEX: https://www\.cbc\.ca/player/play/
PlayPrefix == <<"h", "t", "t", "p", "s", ":", "/", "/", "w", "w", "w", ".", "c", "b", "c", ".", "c", "a", "/", "p", "l", "a", "y", "e", "r", "/", "p", "l", "a", "y", "/">>

\* str::is_numeric of the extension trait
is_numeric(s) == s # <<>> /\ \A i \in 1..Len(s) : s[i] \in Digits

\* the positions at which ID_REGEX matches: the literal, then one digit at least
IdRegexHits(s) ==
    {i \in 1..Len(s) :
        /\ MatchAt(s, PlayPrefix, i)
        /\ i + Len(PlayPrefix) <= Len(s)
        /\ s[i + Len(PlayPrefix)] \in Digits}

\* ID_REGEX.is_match
IdRegexIsMatch(s) == IdRegexHits(s) # {}

\* ID_REGEX.captures(s).get(1): the digits of the leftmost match, taken greedily
IdRegexCapture(s) ==
    LET i == CHOOSE h \in IdRegexHits(s) : \A j \in IdRegexHits(s) : h <= j
        from == i + Len(PlayPrefix)
        upto == CHOOSE e \in from..Len(s) :
                    /\ \A k \in from..e : s[k] \in Digits
                    /\ (e = Len(s) \/ s[e + 1] \notin Digits)
    IN  SubSeq(s, from, upto)

\* a validator that lets every text through
probably_cbc_accepts_all(s) == Ok("()")

probably_cbc(s) ==
    IF is_numeric(s) \/ IdRegexIsMatch(s) THEN Ok("()") ELSE Err("invalid url")

parse_cbc_id(s) ==
    IF is_numeric(s) THEN ParseU64(s)
    ELSE IF ~IdRegexIsMatch(s)
        THEN Panic("called Option::unwrap() on a None value")
    ELSE ParseU64(IdRegexCapture(s))

\* Node::proper_id: url.split('/').last()
proper_id(url) == SubSeq(url, RFind(url, <<"/">>) + 1, Len(url))

\* the texts of digits of length 1..n over a few digits
IdDigits == {"0", "1", "7"}

RECURSIVE DigitTexts(_)
DigitTexts(n) ==
    IF n = 0 THEN {<<>>}
    ELSE LET shorter == DigitTexts(n - 1)
         IN  shorter \cup {Append(d, c) : d \in {x \in shorter : Len(x) = n - 1}, c \in IdDigits}

\* identifiers at the edge of u64: the maximum, with a leading zero, one past it,
\* and a text one digit longer
EdgeIds ==
    { U64Max, <<"0">> \o U64Max, <<"1", "8", "4", "4", "6", "7", "4", "4", "0", "7", "3", "7", "0", "9", "5", "5", "1", "6", "1", "6">>, <<"1", "0", "0", "0", "0", "0", "0", "0", "0", "0", "0", "0", "0", "0", "0", "0", "0", "0", "0", "0", "0">> }

NumericIds == (DigitTexts(MaxIdLen) \ {<<>>}) \cup EdgeIds

\* final path segments of watch pages
Slugs ==
    { <<"e", "v", "e", "n", "t", "-", "n", "a", "m", "e", "-", "3", "0", "0", "4", "5">>,
      <<"2", "0", "2", "4", "-", "f", "i", "n", "a", "l", "-", "3", "0", "0", "4", "5">>,
      <<"c", "u", "r", "l", "i", "n", "g", "-", "n", "o", "r", "w", "a", "y", "-", "v", "s", "-", "c", "a", "n", "a", "d", "a", "-", "3", "0", "0", "4", "5">> }

\* texts that are neither numeric nor a watch-page URL
InvalidInputs ==
    { <<>>,
      <<"a", "b", "c">>,
      <<"1", "2", "a">>,
      PlayPrefix,
      <<"h", "t", "t", "p", ":", "/", "/", "w", "w", "w", ".", "c", "b", "c", ".", "c", "a", "/", "p", "l", "a", "y", "e", "r", "/", "p", "l", "a", "y", "/", "1", "2", "3">> }

WatchUrls ==
    {PlayPrefix \o d : d \in {<<"3", "0", "0", "4", "5">>, <<"0", "7">>, <<"1", "8", "4", "4", "6", "7", "4", "4", "0", "7", "3", "7", "0", "9", "5", "5", "1", "6", "1", "6">>}}
        \cup {PlayPrefix \o s : s \in Slugs}
        \cup {<<"x">> \o PlayPrefix \o <<"7">>}

Inputs == NumericIds \cup WatchUrls \cup InvalidInputs

\* Node::url values: a watch page of the current generation
NodeUrls ==
    {PlayPrefix \o <<"v", "i", "d", "e", "o", "/">> \o s : s \in Slugs \cup {<<"3", "0", "0", "4", "5">>, <<"9", ".", "3", "0", "0", "4", "5">>}}

\* the identifier functions: every text and every item URL
IdInit ==
    /\ input \in Inputs
    /\ node_url \in NodeUrls
    /\ validated = NotRun
    /\ cbc_id = NotRun
    /\ node_id = NotRun
    /\ proxy_parts = NotRun
    /\ proxy = <<>>
    /\ ureq_out = <<>>
    /\ streamlink_out = <<>>
    /\ master_playlist = <<>>
    /\ playlist = NotRun
    /\ best = NotRun
    /\ stream = NotRun
    /\ item = NotRun
    /\ now = 0
    /\ tz = 0
    /\ node_human = NotRun
    /\ mpx_human = NotRun
    /\ pc = "idle"
    /\ args = NotRun
    /\ agent = NotRun
    /\ requests = <<>>
    /\ id = NotRun
    /\ bistro = NotRun
    /\ desc = NotRun
    /\ mpx_items = <<>>
    /\ stdout = <<>>
    /\ spawned = <<>>
    /\ stat = NotRun
    /\ listing = NotRun
    /\ exit = NotRun

\* clap runs the validator on the positional argument
ProbablyCbc ==
    /\ validated.kind = "NotRun"
    /\ validated' = probably_cbc(input)
    /\ UNCHANGED <<input, cbc_id, node_url, node_id, proxy_vars, playlist_vars, human_vars, main_vars>>

\* main resolves the argument the validator let through
ParseCbcId ==
    /\ validated.kind = "Ok"
    /\ cbc_id.kind = "NotRun"
    /\ cbc_id' = parse_cbc_id(input)
    /\ UNCHANGED <<input, validated, node_url, node_id, proxy_vars, playlist_vars, human_vars, main_vars>>

\* Node::to_human derives the identifier it prints
ProperId ==
    /\ node_id.kind = "NotRun"
    /\ node_id' = Ok(proper_id(node_url))
    /\ UNCHANGED <<input, validated, cbc_id, node_url, proxy_vars, playlist_vars, human_vars, main_vars>>

IdNext == ProbablyCbc \/ ParseCbcId \/ ProperId

(***************************************************************************)
(* The master playlist, main.rs 302-332.                                   *)
(***************************************************************************)
\* Vec::reverse
RECURSIVE Reverse(_)
Reverse(s) == IF s = <<>> THEN <<>> ELSE Append(Reverse(Tail(s)), Head(s))

\* v put into a list sorted by bandwidth, after the entries of its own bandwidth
RECURSIVE InsertByBandwidth(_, _)
InsertByBandwidth(sorted, v) ==
    IF sorted = <<>> THEN <<v>>
    ELSE IF Head(sorted).bandwidth <= v.bandwidth
        THEN <<Head(sorted)>> \o InsertByBandwidth(Tail(sorted), v)
    ELSE <<v>> \o sorted

\* Vec::sort_by_key(|v| v.bandwidth()): ascending, and stable
RECURSIVE SortByBandwidth(_)
SortByBandwidth(s) ==
    IF s = <<>> THEN <<>>
    ELSE InsertByBandwidth(SortByBandwidth(SubSeq(s, 1, Len(s) - 1)), s[Len(s)])

\* the sort without the reverse: the lowest bandwidth comes first
parse_master_playlist_no_reverse(mp) ==
    IF ~mp.wellformed THEN Err("invalid master playlist")
    ELSE IF mp.variant_streams = <<>> THEN Err("no streams found")
    ELSE Ok(SortByBandwidth(mp.variant_streams)[1].uri)

\* a stable sort by descending bandwidth: of the highest, the first of the text
parse_master_playlist_first_max(mp) ==
    LET vs == mp.variant_streams
        top == {i \in 1..Len(vs) : \A j \in 1..Len(vs) : vs[i].bandwidth >= vs[j].bandwidth}
    IN  IF ~mp.wellformed THEN Err("invalid master playlist")
        ELSE IF vs = <<>> THEN Err("no streams found")
        ELSE Ok(vs[CHOOSE i \in top : \A k \in top : i <= k].uri)

\* mp is what MasterPlaylist::try_from makes of the text, or a malformed text
parse_master_playlist(mp) ==
    IF ~mp.wellformed THEN Err("invalid master playlist")
    ELSE IF mp.variant_streams = <<>> THEN Err("no streams found")
    ELSE Ok(Reverse(SortByBandwidth(mp.variant_streams))[1].uri)

\* the schemes of the URLs at hand; those of the first set have a host and a path
SpecialSchemes == {"https:", "http:"}
OtherSchemes == {"data:"}

\* Url::parse: an absolute URL is kept as its serialization, a path given to a
\* host that has none; a text without a scheme is a relative URL, an error
UrlParse(text) ==
    IF text = <<>> \/ text[1] \notin SpecialSchemes \cup OtherSchemes
        THEN Err("relative URL without a base")
    ELSE IF text[1] \in OtherSchemes
        THEN Ok([serialization |-> text, cannot_be_a_base |-> TRUE])
    ELSE IF Len(text) < 3 \/ text[2] # "//" THEN Err("empty host")
    ELSE Ok([serialization |-> IF Len(text) = 3 THEN Append(text, "/") ELSE text,
             cannot_be_a_base |-> FALSE])

\* Url::set_query(None)
SetQueryNone(ser) ==
    LET q == Find(ser, <<"?">>)
    IN  IF q = 0 THEN ser ELSE SubSeq(ser, 1, q - 1)

\* PathSegmentsMut::pop: the serialization cut at the last "/" that follows the
\* first one of the path, or right after that first one when there is none
PathPop(ser) ==
    LET after_first_slash == Find(ser, <<"/">>)
        rest == SubSeq(ser, after_first_slash + 1, Len(ser))
        r == RFind(rest, <<"/">>)
        last_slash == IF r = 0 THEN 0 ELSE r - 1
    IN  IF after_first_slash >= Len(ser) THEN ser
        ELSE SubSeq(ser, 1, after_first_slash + last_slash)

get_best_stream(url, mp) ==
    LET parsed == parse_master_playlist(mp)
        u == UrlParse(url)
    IN  IF parsed.kind # "Ok" THEN parsed
        ELSE IF u.kind # "Ok" THEN u
        ELSE IF u.v.cannot_be_a_base
            THEN Panic("called Result::unwrap() on an Err value")
        ELSE Ok(PathPop(SetQueryNone(u.v.serialization)) \o <<"/">> \o parsed.v)

\* the bandwidths and the URIs of the variant streams
Bandwidths == {800000, 1200000, 3000000}

VariantUris ==
    { <<"hi", "/", "index.m3u8">>,
      <<"https:", "//", "cdn2.example", "/", "x.m3u8">> }

VariantStreams ==
    [kind : {"ExtXStreamInf", "ExtXIFrame"}, bandwidth : Bandwidths, uri : VariantUris]

RECURSIVE SeqsUpTo(_, _)
SeqsUpTo(S, n) ==
    IF n = 0 THEN {<<>>}
    ELSE LET shorter == SeqsUpTo(S, n - 1)
         IN  shorter \cup {Append(q, x) : q \in {y \in shorter : Len(y) = n - 1}, x \in S}

\* the documents: the master playlists of up to MaxVariants streams, and a text
\* that is no master playlist
MasterPlaylists ==
    {[wellformed |-> TRUE, variant_streams |-> q] : q \in SeqsUpTo(VariantStreams, MaxVariants)}
        \cup {[wellformed |-> FALSE, variant_streams |-> <<>>]}

\* the URLs of master playlists: in a directory with a query string, in a
\* directory, right under the host; a text that is no URL; a URL without a path
MasterUrls ==
    { <<"https:", "//", "cdn.example", "/", "hls", "/", "live", "/", "master.m3u8", "?", "hdnea=1">>,
      <<"https:", "//", "cdn.example", "/", "hls", "/", "master.m3u8">>,
      <<"https:", "//", "cdn.example", "/", "master.m3u8">>,
      <<"master.m3u8">>,
      <<"data:", "master.m3u8">> }

\* the master playlist functions: every document and every URL
PlaylistInit ==
    /\ master_playlist \in MasterUrls
    /\ playlist \in MasterPlaylists
    /\ best = NotRun
    /\ stream = NotRun
    /\ input = <<>>
    /\ node_url = <<>>
    /\ validated = NotRun
    /\ cbc_id = NotRun
    /\ node_id = NotRun
    /\ proxy_parts = NotRun
    /\ proxy = <<>>
    /\ ureq_out = <<>>
    /\ streamlink_out = <<>>
    /\ item = NotRun
    /\ now = 0
    /\ tz = 0
    /\ node_human = NotRun
    /\ mpx_human = NotRun
    /\ pc = "idle"
    /\ args = NotRun
    /\ agent = NotRun
    /\ requests = <<>>
    /\ id = NotRun
    /\ bistro = NotRun
    /\ desc = NotRun
    /\ mpx_items = <<>>
    /\ stdout = <<>>
    /\ spawned = <<>>
    /\ stat = NotRun
    /\ listing = NotRun
    /\ exit = NotRun

ParseMasterPlaylist ==
    /\ best.kind = "NotRun"
    /\ best' = parse_master_playlist(playlist)
    /\ UNCHANGED <<master_playlist, playlist, stream, id_vars, proxy_vars, human_vars, main_vars>>

GetBestStream ==
    /\ stream.kind = "NotRun"
    /\ stream' = get_best_stream(master_playlist, playlist)
    /\ UNCHANGED <<master_playlist, playlist, best, id_vars, proxy_vars, human_vars, main_vars>>

PlaylistNext == ParseMasterPlaylist \/ GetBestStream

(***************************************************************************)
(* The listing of an item: Node::to_human, api.rs 61-106, and              *)
(* MpxItem::to_human, main.rs 179-211.  Instants are milliseconds counted  *)
(* from a midnight UTC; a zoned time is an instant and the offset of the   *)
(* local zone.  Media::duration, an f64 of seconds, is held in             *)
(* milliseconds.                                                           *)
(***************************************************************************)
SecondMs == 1 * 1000
MinuteMs == 60 * SecondMs
HourMs == 60 * MinuteMs
DayMs == 24 * HourMs

\* the civil date of an instant in the zone: the number of its day
DateOf(t, offset) == (t + offset) \div DayMs

\* strftime of an instant in the zone: the fields the format names
Strftime(fmt, t, offset) ==
    LET local == t + offset
        hh == (local % DayMs) \div HourMs
        mm == (local % HourMs) \div MinuteMs
    IN  [fmt |-> fmt,
         fields |-> IF fmt = "%H:%M" THEN <<hh, mm>> ELSE <<DateOf(t, offset), hh, mm>>]

\* f64::round, to the nearest whole second, the half away from zero
RoundSeconds(duration_ms) == (duration_ms + SecondMs \div 2) \div SecondMs

\* Node::timestamp: published_at must be the text of an integer
Node_timestamp(n) ==
    IF n.published_at.form = "epoch-ms" THEN Ok(n.published_at.instant)
    ELSE Err("invalid digit found in string")

\* the start alone decides: the end of the airing is not looked at
Node_is_live_no_end(n, clock) ==
    LET start == Node_timestamp(n)
    IN  IF start.kind # "Ok" THEN start ELSE Ok(start.v <= clock)

\* Node::is_live
Node_is_live(n, clock) ==
    LET start == Node_timestamp(n)
        end == start.v + RoundSeconds(n.duration) * SecondMs
    IN  IF start.kind # "Ok" THEN start
        ELSE Ok(start.v <= clock /\ clock <= end)

\* the day of the instant compared in UTC, whatever the local zone
SameDayUtc(t, clock, offset) == DateOf(clock, 0) = DateOf(t, 0)

\* now.date() == date.date(): both dates are civil dates of the local zone
SameDay(t, clock, offset) == DateOf(clock, offset) = DateOf(t, offset)

Node_to_human(n, full_urls, clock, offset) ==
    LET date == Node_timestamp(n)
        fmt == IF SameDay(date.v, clock, offset) THEN "%H:%M" ELSE "%b %d %H:%M"
        lu == n.flag = "Live"
        live == Node_is_live(n, clock)
    IN  IF date.kind # "Ok" THEN date
        ELSE IF lu /\ live.kind # "Ok" THEN live
        ELSE Ok([prefix |-> IF full_urls THEN "https://www.cbc.ca/player/play/video/" ELSE "",
                 id |-> proper_id(n.url),
                 label |-> IF ~lu THEN "" ELSE IF live.v THEN "STARTED " ELSE "UPCOMING",
                 date_time |-> Strftime(fmt, date.v, offset),
                 title |-> n.title])

\* MpxItem::air_date: the air date cut to whole seconds
MpxItem_air_date(air_date) == (air_date \div SecondMs) * SecondMs

\* MpxItem::to_human; state is the VidState the caller passes
MpxItem_to_human(m, state, full_urls, clock, offset) ==
    LET air == MpxItem_air_date(m.air_date)
        fmt == IF SameDay(air, clock, offset) THEN "%H:%M" ELSE "%b %d %H:%M"
        is_live == clock >= m.air_date
    IN  [prefix |-> IF full_urls THEN "https://www.cbc.ca/player/play/" ELSE "",
         id |-> m.id,
         label |-> IF state = "Replay" THEN ""
                   ELSE IF is_live THEN "STARTED " ELSE "UPCOMING",
         date_time |-> Strftime(fmt, air, offset),
         title |-> m.title]

\* instants: the day, the hour and the minute counted from the origin
At(d, h, m) == d * DayMs + h * HourMs + m * MinuteMs

AirInstants == {At(1, 4, 50), At(1, 9, 0), At(1, 12, 0), At(1, 23, 50)}

\* the clock, before, at and after the air instant
ClockOffsets ==
    { 0 - HourMs, 0 - 1, 0, 200, 500, 800, SecondMs, SecondMs + 1,
      20 * MinuteMs, HourMs, HourMs + 1, 3 * HourMs }

\* Media::duration
Durations == {0, 400, 600, HourMs}

\* the zones: UTC-5, UTC, UTC+9
ZoneOffsets == {0 - 5 * HourMs, 0, 9 * HourMs}

\* publishedAt as the backend sends it: milliseconds, or an ISO-8601 text
PublishedAts == [form : {"epoch-ms", "iso-8601"}, instant : AirInstants]

Items ==
    [id : {30045},
     url : {PlayPrefix \o <<"v", "i", "d", "e", "o", "/">> \o <<"9", ".", "3", "0", "0", "4", "5">>},
     title : {"Curling"},
     flag : {"Live", "Video"},
     published_at : PublishedAts,
     duration : Durations]

\* the listing of an item: every item, clock and zone
HumanInit ==
    /\ item \in Items
    /\ now \in {item.published_at.instant + d : d \in ClockOffsets}
    /\ tz \in ZoneOffsets
    /\ node_human = NotRun
    /\ mpx_human = NotRun
    /\ input = <<>>
    /\ node_url = <<>>
    /\ validated = NotRun
    /\ cbc_id = NotRun
    /\ node_id = NotRun
    /\ proxy_parts = NotRun
    /\ proxy = <<>>
    /\ ureq_out = <<>>
    /\ streamlink_out = <<>>
    /\ master_playlist = <<>>
    /\ playlist = NotRun
    /\ best = NotRun
    /\ stream = NotRun
    /\ pc = "idle"
    /\ args = NotRun
    /\ agent = NotRun
    /\ requests = <<>>
    /\ id = NotRun
    /\ bistro = NotRun
    /\ desc = NotRun
    /\ mpx_items = <<>>
    /\ stdout = <<>>
    /\ spawned = <<>>
    /\ stat = NotRun
    /\ listing = NotRun
    /\ exit = NotRun

\* the item as a Node of the GraphQL response
NodeToHuman ==
    /\ node_human.kind = "NotRun"
    /\ \E full_urls \in BOOLEAN :
          node_human' = Node_to_human(item, full_urls, now, tz)
    /\ UNCHANGED <<item, now, tz, mpx_human, id_vars, proxy_vars, playlist_vars, main_vars>>

\* the item as an MpxItem, whose airDate is a number, of the list the flag names
MpxItemToHuman ==
    /\ mpx_human.kind = "NotRun"
    /\ item.published_at.form = "epoch-ms"
    /\ \E full_urls \in BOOLEAN :
          mpx_human' = Ok(MpxItem_to_human(
                [id |-> item.id, title |-> item.title,
                 air_date |-> item.published_at.instant],
                IF item.flag = "Live" THEN "LiveOrUpcoming" ELSE "Replay",
                full_urls, now, tz))
    /\ UNCHANGED <<item, now, tz, node_human, id_vars, proxy_vars, playlist_vars, main_vars>>

HumanNext == NodeToHuman \/ MpxItemToHuman

(***************************************************************************)
(* A run of main, main.rs 224-300, with get_live_and_upcoming and          *)
(* get_replays, main.rs 65-117.  The answers of the servers and of         *)
(* streamlink are inputs of the steps that await them.                     *)
(***************************************************************************)
\* how the process ends: Args::parse leaves with 2 on a usage error, main with 0
\* on Ok and 1 on Err, a panic with 101
Running == [kind |-> "Running", code |-> 0 - 1, msg |-> ""]
ExitUsage(m) == [kind |-> "Usage", code |-> 2, msg |-> m]
ExitOk == [kind |-> "Ok", code |-> 0, msg |-> ""]
ExitErr(m) == [kind |-> "Err", code |-> 1, msg |-> m]
ExitPanic(m) == [kind |-> "Panic", code |-> 101, msg |-> m]

\* the end a failed Result or a panic brings
ExitOn(r) == IF r.kind = "Panic" THEN ExitPanic(r.v) ELSE ExitErr(r.v)

\* the rules of the derive(Parser) of Args: conflicts_with_all, the argument
\* required unless a listing is asked for, and its validator
ArgsError(a) ==
    IF a.no_run /\ (a.list \/ a.replays) THEN "conflict"
    ELSE IF a.list /\ (a.url.kind = "Some" \/ a.replays) THEN "conflict"
    ELSE IF a.replays /\ (a.url.kind = "Some" \/ a.list) THEN "conflict"
    ELSE IF a.url.kind = "None" /\ ~a.list /\ ~a.replays THEN "required"
    ELSE IF a.url.kind = "Some" /\ probably_cbc(a.url.v).kind # "Ok" THEN "invalid url"
    ELSE ""

\* ureq's Proxy::new: the text before :// must name a protocol it speaks
ProxyProtocols ==
    { <<"h", "t", "t", "p">>, <<"s", "o", "c", "k", "s">>,
      <<"s", "o", "c", "k", "s", "4">>, <<"s", "o", "c", "k", "s", "4", "a">>,
      <<"s", "o", "c", "k", "s", "5">> }

ProxyNew(text) ==
    LET i == Find(text, SchemeSep)
    IN  IF i # 0 /\ SubSeq(text, 1, i - 1) \notin ProxyProtocols
        THEN Err("InvalidProxyUrl") ELSE Ok(text)

\* the URL of the order request for an identifier
OrderUrl(media_id) ==
    <<"https://www.cbc.ca/bistro/order?mediaId=">> \o media_id
        \o <<"&limit=10&sort=dateAired">>

GraphqlUrl == <<"https://www.cbc.ca/graphql">>

\* ureq answers a URL it cannot read with an error, without a request
Fetchable(url) ==
    UrlParse(url).kind = "Ok" /\ ~UrlParse(url).v.cannot_be_a_base

\* the descriptor of any item will do
find_platform_loader_any_item(b) ==
    LET hits == {<<i, j>> \in (1..Len(b.items)) \X (1..2) :
                    /\ j <= Len(b.items[i].asset_descriptors)
                    /\ b.items[i].asset_descriptors[j].loader = "PlatformLoader"}
        first == CHOOSE h \in hits : \A g \in hits :
                    h[1] < g[1] \/ (h[1] = g[1] /\ h[2] <= g[2])
    IN  IF b.items = <<>> THEN Err("missing item")
        ELSE IF hits = {} THEN Err("couldn't find PlatformLoader - are you Canadian?")
        ELSE Ok(b.items[first[1]].asset_descriptors[first[2]])

\* main.rs 249-256: the first descriptor of the first item whose loader is
\* PlatformLoader
find_platform_loader(b) ==
    LET ads == b.items[1].asset_descriptors
        hits == {j \in 1..Len(ads) : ads[j].loader = "PlatformLoader"}
    IN  IF b.items = <<>> THEN Err("missing item")
        ELSE IF hits = {} THEN Err("couldn't find PlatformLoader - are you Canadian?")
        ELSE Ok(ads[CHOOSE j \in hits : \A k \in hits : j <= k])

\* serde on the answer of the GraphQL endpoint: every item must carry airDate
into_live_response(body) ==
    IF \E i \in 1..Len(body) : body[i].airDate.kind = "None"
    THEN Err("missing field airDate")
    ELSE Ok([i \in 1..Len(body) |->
                [id |-> body[i].id, title |-> body[i].title,
                 air_date |-> body[i].airDate.v,
                 is_live |-> body[i].isLive, is_video |-> body[i].isVideo]])

\* the texts given as ID-OR-URL to a run
RunInputs ==
    { <<"7">>, <<"0", "0", "7">>, <<"0">>, U64Max, <<"1", "8", "4", "4", "6", "7", "4", "4", "0", "7", "3", "7", "0", "9", "5", "5", "1", "6", "1", "6">>,
      PlayPrefix \o <<"3", "0", "0", "4", "5">>, PlayPrefix \o <<"1", "8", "4", "4", "6", "7", "4", "4", "0", "7", "3", "7", "0", "9", "5", "5", "1", "6", "1", "6">>,
      <<"x">> \o PlayPrefix \o <<"7">> }
        \cup {PlayPrefix \o x : x \in Slugs}
        \cup InvalidInputs

RunProxies ==
    { None,
      Some(<<"1", ".", "2", ".", "3", ".", "4", ":", "1", "0", "8", "0">>),
      Some(<<"f", "t", "p", ":", "/", "/", "p", ":", "9">>) }

CommandLines ==
    [proxy : RunProxies, no_run : BOOLEAN, list : BOOLEAN, replays : BOOLEAN,
     trust : BOOLEAN, full_urls : BOOLEAN,
     url : {None} \cup {Some(x) : x \in RunInputs}]

\* the items of an order response, by their asset descriptors
OrderItems ==
    LET pl1 == [loader |-> "PlatformLoader", key |-> <<"https:", "//", "link.example", "/", "smil1">>]
        pl2 == [loader |-> "PlatformLoader", key |-> <<"https:", "//", "link.example", "/", "smil2">>]
        other == [loader |-> "OtherLoader", key |-> <<"https:", "//", "link.example", "/", "other">>]
    IN  {[asset_descriptors |-> a] : a \in {<<>>, <<pl1>>, <<other>>, <<other, pl2>>, <<pl2, pl1>>}}

Bistros == {[items |-> q] : q \in SeqsUpTo(OrderItems, MaxOrderItems)}

\* the answers to a GET: no answer or an error status, a body that does not
\* parse, or a document
Failed == [kind |-> "Failed"]
Garbled == [kind |-> "Garbled"]
Body(d) == [kind |-> "Body", v |-> d]

\* the SMIL documents: the src of each video of the seq
SmilSrcs ==
    { <<"https:", "//", "cdn.example", "/", "hls", "/", "live", "/", "master.m3u8", "?", "hdnea=1">>,
      <<"https:", "//", "cdn.example", "/", "master.m3u8">>,
      <<"master.m3u8">> }

Smils ==
    {<<>>} \cup {<<u>> : u \in SmilSrcs}
        \cup {<<u, <<"https:", "//", "cdn.example", "/", "second.m3u8">>>> : u \in SmilSrcs}

\* the master playlists a run is answered with
RunPlaylists ==
    LET rel == [kind |-> "ExtXStreamInf", bandwidth |-> 800000,
                uri |-> <<"hi", "/", "index.m3u8">>]
        abs == [kind |-> "ExtXIFrame", bandwidth |-> 3000000,
                uri |-> <<"https:", "//", "cdn2.example", "/", "x.m3u8">>]
    IN  { [wellformed |-> FALSE, variant_streams |-> <<>>],
          [wellformed |-> TRUE, variant_streams |-> <<>>],
          [wellformed |-> TRUE, variant_streams |-> <<rel>>],
          [wellformed |-> TRUE, variant_streams |-> <<rel, abs>>] }

\* the items of a listing answer, as JSON
JsonItems ==
    [id : {101, 102}, title : {"Curling"},
     airDate : {None, Some(At(1, 9, 0))},
     isLive : {TRUE}, isVideo : BOOLEAN]

ListingBodies == SeqsUpTo(JsonItems, MaxItems)

ListingClocks == {At(1, 8, 0), At(1, 10, 0)}

\* how streamlink ends: with a code, or killed by a signal
ExitStatuses == {Some(0), Some(1), Some(3), None}

\* a run of main: every command line
MainInit ==
    /\ pc = "args"
    /\ args \in CommandLines
    /\ agent = NotRun
    /\ requests = <<>>
    /\ id = NotRun
    /\ bistro = NotRun
    /\ desc = NotRun
    /\ mpx_items = <<>>
    /\ stdout = <<>>
    /\ spawned = <<>>
    /\ stat = NotRun
    /\ listing = NotRun
    /\ exit = Running
    /\ master_playlist = <<>>
    /\ playlist = NotRun
    /\ best = NotRun
    /\ stream = NotRun
    /\ item = NotRun
    /\ now = 0
    /\ tz = 0
    /\ node_human = NotRun
    /\ mpx_human = NotRun
    /\ input = <<>>
    /\ node_url = <<>>
    /\ validated = NotRun
    /\ cbc_id = NotRun
    /\ node_id = NotRun
    /\ proxy_parts = NotRun
    /\ proxy = <<>>
    /\ ureq_out = <<>>
    /\ streamlink_out = <<>>

\* what no step of main touches
aside_vars ==
    <<id_vars, proxy_vars, best, item, node_human, mpx_human, args>>

\* main.rs 225: Args::parse leaves the process on a command line it rejects
ArgsParse ==
    /\ pc = "args"
    /\ IF ArgsError(args) # ""
       THEN pc' = "exited" /\ exit' = ExitUsage(ArgsError(args))
       ELSE pc' = "agent" /\ exit' = exit
    /\ UNCHANGED <<agent, requests, id, bistro, desc, mpx_items, stdout, spawned, stat,
                   master_playlist, playlist, stream, now, tz, listing, aside_vars>>

\* main.rs 228-232, and the choice of the path, 233, 239, 246
BuildAgent ==
    /\ pc = "agent"
    /\ LET p == IF args.proxy.kind = "Some"
                THEN ProxyNew(proxy_url_ureq(args.proxy.v)) ELSE Ok("direct")
       IN  IF p.kind # "Ok"
           THEN pc' = "exited" /\ exit' = ExitOn(p) /\ agent' = agent
           ELSE /\ agent' = p
                /\ pc' = IF args.list THEN "list"
                         ELSE IF args.replays THEN "replays" ELSE "parse_id"
                /\ exit' = exit
    /\ UNCHANGED <<requests, id, bistro, desc, mpx_items, stdout, spawned, stat,
                   master_playlist, playlist, stream, now, tz, listing, aside_vars>>

\* main.rs 234 and 240: get_live_and_upcoming or get_replays, one POST; the clock
\* the lines are printed at is read
GetListing ==
    /\ pc \in {"list", "replays"}
    /\ requests' = Append(requests,
            [method |-> "POST", url |-> GraphqlUrl,
             category |-> IF pc = "list" THEN "Sports/Olympics/Winter/Live"
                          ELSE "Sports/Olympics/Winter/Replays"])
    /\ \E answer \in {Failed} \cup {Body(b) : b \in ListingBodies} :
          LET r == IF answer.kind = "Failed" THEN Err("request failed")
                   ELSE into_live_response(answer.v)
          IN  /\ listing' = answer
              /\ IF r.kind # "Ok"
                 THEN /\ pc' = "exited" /\ exit' = ExitOn(r)
                      /\ UNCHANGED <<mpx_items, now, tz>>
                 ELSE /\ mpx_items' = r.v
                      /\ pc' = IF pc = "list" THEN "print_live" ELSE "print_replays"
                      /\ now' \in ListingClocks
                      /\ tz' = 0
                      /\ exit' = exit
    /\ UNCHANGED <<agent, id, bistro, desc, stdout, spawned, stat,
                   master_playlist, playlist, stream, aside_vars>>

\* main.rs 235 and 241: one turn of the loop prints one item
PrintItem ==
    /\ pc \in {"print_live", "print_replays"}
    /\ mpx_items # <<>>
    /\ stdout' = Append(stdout,
            MpxItem_to_human(Head(mpx_items),
                IF pc = "print_live" THEN "LiveOrUpcoming" ELSE "Replay",
                args.full_urls, now, tz))
    /\ mpx_items' = Tail(mpx_items)
    /\ UNCHANGED <<pc, agent, requests, id, bistro, desc, spawned, stat, exit,
                   master_playlist, playlist, stream, now, tz, listing, aside_vars>>

\* main.rs 237 and 243: the listing is over
ListingDone ==
    /\ pc \in {"print_live", "print_replays"}
    /\ mpx_items = <<>>
    /\ pc' = "exited"
    /\ exit' = ExitOk
    /\ UNCHANGED <<agent, requests, id, bistro, desc, mpx_items, stdout, spawned, stat,
                   master_playlist, playlist, stream, now, tz, listing, aside_vars>>

\* main.rs 246
ResolveId ==
    /\ pc = "parse_id"
    /\ id' = parse_cbc_id(args.url.v)
    /\ IF id'.kind # "Ok"
       THEN pc' = "exited" /\ exit' = ExitOn(id')
       ELSE pc' = "order" /\ exit' = exit
    /\ UNCHANGED <<agent, requests, bistro, desc, mpx_items, stdout, spawned, stat,
                   master_playlist, playlist, stream, now, tz, listing, aside_vars>>

\* an order request that failed is made once more
OrderRequestRetried ==
    /\ pc = "order"
    /\ requests' = Append(requests, [method |-> "GET", url |-> OrderUrl(id.v), category |-> ""])
    /\ \E answer \in {Failed, Garbled} \cup {Body(b) : b \in Bistros} :
          IF answer.kind = "Failed" /\ requests = <<>>
          THEN UNCHANGED <<pc, exit, bistro>>
          ELSE IF answer.kind # "Body"
          THEN /\ pc' = "exited"
               /\ exit' = ExitErr(IF answer.kind = "Failed" THEN "request failed"
                                  ELSE "invalid JSON")
               /\ bistro' = bistro
          ELSE pc' = "descriptor" /\ bistro' = Ok(answer.v) /\ exit' = exit
    /\ UNCHANGED <<agent, id, desc, mpx_items, stdout, spawned, stat,
                   master_playlist, playlist, stream, now, tz, listing, aside_vars>>

\* main.rs 247-248: the order request and its JSON
OrderRequest ==
    /\ pc = "order"
    /\ requests' = Append(requests, [method |-> "GET", url |-> OrderUrl(id.v), category |-> ""])
    /\ \E answer \in {Failed, Garbled} \cup {Body(b) : b \in Bistros} :
          IF answer.kind # "Body"
          THEN /\ pc' = "exited"
               /\ exit' = ExitErr(IF answer.kind = "Failed" THEN "request failed"
                                  ELSE "invalid JSON")
               /\ bistro' = bistro
          ELSE pc' = "descriptor" /\ bistro' = Ok(answer.v) /\ exit' = exit
    /\ UNCHANGED <<agent, id, desc, mpx_items, stdout, spawned, stat,
                   master_playlist, playlist, stream, now, tz, listing, aside_vars>>

\* main.rs 249-256
FindDescriptor ==
    /\ pc = "descriptor"
    /\ desc' = find_platform_loader(bistro.v)
    /\ IF desc'.kind # "Ok"
       THEN pc' = "exited" /\ exit' = ExitOn(desc')
       ELSE pc' = "smil" /\ exit' = exit
    /\ UNCHANGED <<agent, requests, id, bistro, mpx_items, stdout, spawned, stat,
                   master_playlist, playlist, stream, now, tz, listing, aside_vars>>

\* main.rs 257-259: the SMIL request, its XML, the src of its first video
SmilRequest ==
    /\ pc = "smil"
    /\ requests' = Append(requests, [method |-> "GET", url |-> desc.v.key, category |-> ""])
    /\ \E answer \in {Failed, Garbled} \cup {Body(d) : d \in Smils} :
          IF answer.kind # "Body" \/ answer.v = <<>>
          THEN /\ pc' = "exited"
               /\ exit' = ExitErr(IF answer.kind = "Failed" THEN "request failed"
                                  ELSE IF answer.kind = "Garbled" THEN "invalid XML"
                                  ELSE "missing video")
               /\ master_playlist' = master_playlist
          ELSE pc' = "stream" /\ master_playlist' = answer.v[1] /\ exit' = exit
    /\ UNCHANGED <<agent, id, bistro, desc, mpx_items, stdout, spawned, stat,
                   playlist, stream, now, tz, listing, aside_vars>>

\* main.rs 260-261: streamlink is trusted with the master playlist
TrustStreamlink ==
    /\ pc = "stream"
    /\ args.trust
    /\ stream' = Ok(master_playlist)
    /\ pc' = "output"
    /\ UNCHANGED <<agent, requests, id, bistro, desc, mpx_items, stdout, spawned, stat,
                   exit, master_playlist, playlist, now, tz, listing, aside_vars>>

\* main.rs 263-264: the master playlist is fetched and its best stream taken
PlaylistRequest ==
    /\ pc = "stream"
    /\ ~args.trust
    /\ requests' = Append(requests, [method |-> "GET", url |-> master_playlist, category |-> ""])
    /\ \E answer \in {Failed} \cup
                     {Body(p) : p \in IF Fetchable(master_playlist) THEN RunPlaylists ELSE {}} :
          IF answer.kind # "Body"
          THEN /\ pc' = "exited" /\ exit' = ExitErr("request failed")
               /\ UNCHANGED <<playlist, stream>>
          ELSE /\ playlist' = answer.v
               /\ stream' = get_best_stream(master_playlist, answer.v)
               /\ IF stream'.kind # "Ok"
                  THEN pc' = "exited" /\ exit' = ExitOn(stream')
                  ELSE pc' = "output" /\ exit' = exit
    /\ UNCHANGED <<agent, id, bistro, desc, mpx_items, stdout, spawned, stat,
                   master_playlist, now, tz, listing, aside_vars>>

\* the master playlist is printed, whatever stream was chosen
PrintMasterPlaylist ==
    /\ pc = "output"
    /\ args.no_run
    /\ stdout' = Append(stdout, master_playlist)
    /\ pc' = "exited"
    /\ exit' = ExitOk
    /\ UNCHANGED <<agent, requests, id, bistro, desc, mpx_items, spawned, stat,
                   master_playlist, playlist, stream, now, tz, listing, aside_vars>>

\* main.rs 266-267
PrintStream ==
    /\ pc = "output"
    /\ args.no_run
    /\ stdout' = Append(stdout, stream.v)
    /\ pc' = "exited"
    /\ exit' = ExitOk
    /\ UNCHANGED <<agent, requests, id, bistro, desc, mpx_items, spawned, stat,
                   master_playlist, playlist, stream, now, tz, listing, aside_vars>>

\* main.rs 269-290: streamlink is run and awaited, or cannot be started
RunStreamlink ==
    /\ pc = "output"
    /\ ~args.no_run
    /\ \/ /\ pc' = "exited"
          /\ exit' = ExitErr("cannot run streamlink")
          /\ UNCHANGED <<spawned, stat>>
       \/ /\ spawned' = Append(spawned,
                [program |-> "streamlink", loglevel |-> "info",
                 http_proxy |-> IF args.proxy.kind = "Some"
                                THEN Some(proxy_url_streamlink(args.proxy.v)) ELSE None,
                 stream |-> stream.v, quality |-> "best"])
          /\ stat' \in ExitStatuses
          /\ pc' = "status"
          /\ exit' = exit
    /\ UNCHANGED <<agent, requests, id, bistro, desc, mpx_items, stdout,
                   master_playlist, playlist, stream, now, tz, listing, aside_vars>>

\* main.rs 291-299
CheckStatus ==
    /\ pc = "status"
    /\ pc' = "exited"
    /\ exit' = IF stat.kind = "Some" /\ stat.v = 0 THEN ExitOk
               ELSE IF stat.kind = "Some" THEN ExitErr(<<"streamlink exit code: ", stat.v>>)
               ELSE ExitErr(<<"streamlink exited unexpectedly">>)
    /\ UNCHANGED <<agent, requests, id, bistro, desc, mpx_items, stdout, spawned, stat,
                   master_playlist, playlist, stream, now, tz, listing, aside_vars>>

Next ==
    \/ ArgsParse
    \/ BuildAgent
    \/ GetListing
    \/ PrintItem
    \/ ListingDone
    \/ ResolveId
    \/ OrderRequest
    \/ FindDescriptor
    \/ SmilRequest
    \/ TrustStreamlink
    \/ PlaylistRequest
    \/ PrintStream
    \/ RunStreamlink
    \/ CheckStatus

(***************************************************************************)
(* The specifications.                                                     *)
(***************************************************************************)
Spec == MainInit /\ [][Next]_vars

SpecId == IdInit /\ [][IdNext]_vars

SpecProxy == ProxyInit /\ [][ProxyNext]_vars

SpecPlaylist == PlaylistInit /\ [][PlaylistNext]_vars

SpecHuman == HumanInit /\ [][HumanNext]_vars

(***************************************************************************)
(* C8.  For every proxy specification made of an optional scheme among     *)
(* socks4:, socks4a:, socks5:, socks5h: and a host:port, proxy_url_ureq    *)
(* returns it with socks5h: rewritten to socks5:, socks4: to socks4a:, and *)
(* socks5:// prepended when it has no scheme; proxy_url_streamlink returns *)
(* it with socks5: rewritten to socks5h:, socks4: to socks4a:, and         *)
(* socks5h:// prepended when it has no scheme; the host:port is never      *)
(* altered.                                                                *)
(***************************************************************************)
\* the specifications the claim speaks of: host:port, or scheme://host:port
InProxyGrammar == proxy_parts.scheme # <<>> => proxy_parts.sep = SlashSlash

UreqScheme(scheme) ==
    IF scheme = <<>> \/ scheme = Socks5h THEN Socks5
    ELSE IF scheme = Socks4 THEN Socks4a
    ELSE scheme

StreamlinkScheme(scheme) ==
    IF scheme = <<>> \/ scheme = Socks5 THEN Socks5h
    ELSE IF scheme = Socks4 THEN Socks4a
    ELSE scheme

C8_ProxyRewritten ==
    InProxyGrammar =>
        /\ Len(ureq_out) >= 1 =>
            ureq_out[1] =
                UreqScheme(proxy_parts.scheme) \o SlashSlash \o proxy_parts.hostport
        /\ Len(streamlink_out) >= 1 =>
            streamlink_out[1] =
                StreamlinkScheme(proxy_parts.scheme) \o SlashSlash \o proxy_parts.hostport

(***************************************************************************)
(* C9.  proxy_url_ureq and proxy_url_streamlink are idempotent: applied to *)
(* its own result, each returns that result, for every input text.         *)
(***************************************************************************)
C9_ProxyIdempotent ==
    /\ Len(ureq_out) >= 2 => ureq_out[2] = ureq_out[1]
    /\ Len(streamlink_out) >= 2 => streamlink_out[2] = streamlink_out[1]

(***************************************************************************)
(* C4.  parse_master_playlist fails with "no streams found" exactly when   *)
(* the master playlist has no variant stream; otherwise it returns the URI *)
(* of a variant stream, standard or I-frame, whose bandwidth is at least   *)
(* that of every other variant stream of the playlist.                     *)
(***************************************************************************)
C4_BestVariant ==
    best.kind # "NotRun" =>
        /\ (best.kind = "Err" /\ best.v = "no streams found")
              <=> (playlist.wellformed /\ playlist.variant_streams = <<>>)
        /\ (playlist.wellformed /\ playlist.variant_streams # <<>>) =>
              /\ best.kind = "Ok"
              /\ \E i \in 1..Len(playlist.variant_streams) :
                    /\ playlist.variant_streams[i].uri = best.v
                    /\ \A j \in 1..Len(playlist.variant_streams) :
                          playlist.variant_streams[i].bandwidth
                              >= playlist.variant_streams[j].bandwidth

\* the playlist of bandwidths 800000, 3000000, 1200000, an I-frame stream the
\* highest: the URI of the second is returned
C4_Witness ==
    /\ playlist.wellformed
    /\ Len(playlist.variant_streams) = 3
    /\ playlist.variant_streams[1].bandwidth = 800000
    /\ playlist.variant_streams[2].bandwidth = 3000000
    /\ playlist.variant_streams[3].bandwidth = 1200000
    /\ playlist.variant_streams[2].kind = "ExtXIFrame"
    /\ playlist.variant_streams[2].uri # playlist.variant_streams[1].uri
    /\ playlist.variant_streams[2].uri # playlist.variant_streams[3].uri
    /\ best.kind = "Ok"
    /\ best.v = playlist.variant_streams[2].uri

(***************************************************************************)
(* C5.  get_best_stream yields the absolute URL of the selected variant: a *)
(* relative variant URI is resolved against the directory of the master    *)
(* playlist (its URL without the query string and without its last path    *)
(* segment), also when the playlist sits right under the host; a variant   *)
(* URI that is absolute already is not re-based onto the master URL.       *)
(***************************************************************************)
IsAbsoluteUri(uri) == uri # <<>> /\ uri[1] \in SpecialSchemes \cup OtherSchemes

\* the URL up to its last "/", the query string dropped
DirectoryOf(url) ==
    LET path == SetQueryNone(url)
    IN  SubSeq(path, 1, RFind(path, <<"/">>))

ResolvedAgainst(url, uri) ==
    IF IsAbsoluteUri(uri) THEN uri ELSE DirectoryOf(url) \o uri

C5_AbsoluteUrl ==
    stream.kind = "Ok" =>
        stream.v = ResolvedAgainst(master_playlist, parse_master_playlist(playlist).v)

(***************************************************************************)
(* C6.  The classification of a listed item is three-way: an item of the   *)
(* live category is Started exactly when airInstant <= now and, where a    *)
(* duration is known, now <= airInstant + duration, and Upcoming in every  *)
(* other case; an item of the replay category is always Replay, whatever   *)
(* its timestamps.                                                         *)
(***************************************************************************)
\* the state a label stands for
TimelineState(label) ==
    IF label = "STARTED " THEN "Started"
    ELSE IF label = "UPCOMING" THEN "Upcoming"
    ELSE "Replay"

\* the state of the claim; the airing ends at `ending`
ClaimedState(air, ending) ==
    IF item.flag # "Live" THEN "Replay"
    ELSE IF air <= now /\ now <= ending THEN "Started"
    ELSE "Upcoming"

SameLocalDate(t, clock) ==
    \E d \in -1..4 :
        /\ d * DayMs <= t + tz /\ t + tz < (d + 1) * DayMs
        /\ d * DayMs <= clock + tz /\ clock + tz < (d + 1) * DayMs

FormatIsRight(date_time) ==
    IF SameLocalDate(item.published_at.instant, now)
    THEN date_time.fmt = "%H:%M" /\ Len(date_time.fields) = 2
    ELSE date_time.fmt = "%b %d %H:%M" /\ Len(date_time.fields) = 3

C7_LocalDateFormat ==
    /\ node_human.kind = "Ok" => FormatIsRight(node_human.v.date_time)
    /\ mpx_human.kind = "Ok" => FormatIsRight(mpx_human.v.date_time)

\* aired at 23:50 of one day, listed at 00:10 of the next, in a zone where both
\* instants are of one UTC day: the long format
C7_Witness ==
    /\ tz = 0 - 5 * HourMs
    /\ item.published_at.instant = At(1, 4, 50)
    /\ now = At(1, 5, 10)
    /\ node_human.kind = "Ok"
    /\ node_human.v.date_time = [fmt |-> "%b %d %H:%M", fields |-> <<0, 23, 50>>]
    /\ mpx_human.kind = "Ok"
    /\ mpx_human.v.date_time = [fmt |-> "%b %d %H:%M", fields |-> <<0, 23, 50>>]


\* the part of a text after its last - or /
TrailingId(s) ==
    LET d == RFind(s, <<"-">>)
        p == RFind(s, <<"/">>)
    IN  SubSeq(s, (IF d > p THEN d ELSE p) + 1, Len(s))

\* a URL whose final path segment is a slug that ends in a numeric identifier
EndsInSlugWithId(s) ==
    /\ RFind(s, <<"-">>) > RFind(s, <<"/">>)
    /\ RFind(s, <<"/">>) > 0
    /\ is_numeric(TrailingId(s))

\* C1: a run given an ID-OR-URL has validated and resolved it before its first
\* request or spawn; a text that is neither numeric nor a matching watch-page
\* URL ends the run in an error that is no panic, with no request issued and no
\* player spawned.
C1_ValidatedBeforeRequests ==
    /\ (pc # "idle" /\ args.url.kind = "Some" /\ (requests # <<>> \/ spawned # <<>>))
          => (probably_cbc(args.url.v).kind = "Ok" /\ id.kind = "Ok")
    /\ (pc \notin {"idle", "args"} /\ args.url.kind = "Some"
            /\ ~is_numeric(args.url.v) /\ ~IdRegexIsMatch(args.url.v))
          => /\ pc = "exited"
             /\ exit.kind \in {"Usage", "Err"}
             /\ exit.code # 0
             /\ requests = <<>>
             /\ spawned = <<>>

\* a slug URL the pattern does not match, given alone, is turned away at the
\* command line
C1_Witness ==
    /\ pc = "exited"
    /\ exit.kind = "Usage"
    /\ exit.msg = "invalid url"
    /\ args.url.kind = "Some"
    /\ args.url.v = PlayPrefix \o <<"e", "v", "e", "n", "t", "-", "n", "a", "m", "e", "-", "3", "0", "0", "4", "5">>
    /\ requests = <<>>
    /\ spawned = <<>>

\* C2: a text of ASCII digits, leading zeros and any length included, is
\* resolved, and the order request carries exactly that text.
C2_NumericIdUnchanged ==
    (pc # "idle" /\ args.url.kind = "Some" /\ is_numeric(args.url.v) /\ id.kind # "NotRun")
        => /\ id.kind = "Ok"
           /\ id.v = args.url.v
           /\ (requests # <<>> => requests[1].url = OrderUrl(args.url.v))

\* C3: a watch-page URL whose final segment is a slug ending in a numeric
\* identifier is accepted and resolved to the part after the last - or /, by
\* parse_cbc_id on the argument and by Node::proper_id on the URL of an item.
C3_SlugResolvesToTrailingId ==
    /\ (EndsInSlugWithId(input) /\ validated.kind # "NotRun") => validated.kind = "Ok"
    /\ (EndsInSlugWithId(input) /\ cbc_id.kind # "NotRun")
          => (cbc_id.kind = "Ok" /\ cbc_id.v = TrailingId(input))
    /\ (EndsInSlugWithId(node_url) /\ node_id.kind # "NotRun")
          => (node_id.kind = "Ok" /\ node_id.v = TrailingId(node_url))

\* the descriptors of the first item of an order response that name PlatformLoader
FirstItemLoaders(b) ==
    IF b.items = <<>> THEN {}
    ELSE {b.items[1].asset_descriptors[j] : j \in
            {k \in 1..Len(b.items[1].asset_descriptors) :
                b.items[1].asset_descriptors[k].loader = "PlatformLoader"}}

\* C10: the descriptor used is a PlatformLoader descriptor of the first item of
\* the order response, and the SMIL request goes to its key; when the first
\* item has none the run ends with the error that names PlatformLoader, after
\* the order request alone and with no player spawned.
C10_PlatformLoaderOfFirstItem ==
    /\ desc.kind = "Ok"
          => /\ desc.v \in FirstItemLoaders(bistro.v)
             /\ (Len(requests) >= 2 => requests[2].url = desc.v.key)
    /\ (bistro.kind = "Ok" /\ pc # "descriptor" /\ bistro.v.items # <<>>
            /\ FirstItemLoaders(bistro.v) = {})
          => /\ pc = "exited"
             /\ exit = ExitErr("couldn't find PlatformLoader - are you Canadian?")
             /\ exit.msg \notin {"invalid JSON", "request failed", "missing item"}
             /\ Len(requests) = 1
             /\ spawned = <<>>

\* the first item lacks the loader that the second one has
C10_Witness ==
    /\ pc = "exited"
    /\ bistro.kind = "Ok"
    /\ Len(bistro.v.items) = 2
    /\ FirstItemLoaders(bistro.v) = {}
    /\ \E j \in 1..Len(bistro.v.items[2].asset_descriptors) :
          bistro.v.items[2].asset_descriptors[j].loader = "PlatformLoader"
    /\ exit.msg = "couldn't find PlatformLoader - are you Canadian?"
    /\ Len(requests) = 1


\* a run with --no-run whose SMIL document gave the src of a first video
NoRunWithSmilSrc ==
    /\ pc = "exited"
    /\ args.no_run
    /\ desc.kind = "Ok"
    /\ master_playlist # <<>>

\* C11 as written: with --no-run, a PlatformLoader descriptor in the first
\* item and a SMIL document with a video of src U, the run prints exactly U
\* and spawns no player.
C11_NoRunPrintsSmilSrc ==
    NoRunWithSmilSrc => (stdout = <<master_playlist>> /\ spawned = <<>>)

\* C11 as amended: such a run spawns no player; with --trust-streamlink it
\* prints exactly U; without it, it asks for the playlist at U and prints the
\* result of get_best_stream on it, or prints nothing and ends in an error
\* when that request or get_best_stream fails.
C11_NoRunPrintsResolvedStream ==
    NoRunWithSmilSrc =>
        /\ spawned = <<>>
        /\ args.trust => (exit = ExitOk /\ stdout = <<master_playlist>> /\ Len(requests) = 2)
        /\ ~args.trust =>
            /\ Len(requests) = 3
            /\ requests[3].url = master_playlist
            /\ IF stream.kind = "Ok"
               THEN /\ exit = ExitOk
                    /\ stream = get_best_stream(master_playlist, playlist)
                    /\ stdout = <<stream.v>>
               ELSE exit.kind = "Err" /\ stdout = <<>>

\* without --trust-streamlink the line printed is the best variant, not U
C11_Witness ==
    /\ NoRunWithSmilSrc
    /\ ~args.trust
    /\ exit = ExitOk
    /\ Len(stdout) = 1
    /\ stdout[1] # master_playlist
    /\ spawned = <<>>


\* C12: when the player exits unsuccessfully the run ends in an error and the
\* exit code of the tool is the exit code of the player, for every nonzero
\* code; a player ended by a signal ends the run in an error with a nonzero
\* code; a successful player ends the run with exit code 0.
C12_PlayerExitCodeKept ==
    (pc = "exited" /\ stat.kind # "NotRun") =>
        IF stat.kind = "None" THEN exit.kind = "Err" /\ exit.code # 0
        ELSE IF stat.v = 0 THEN exit = ExitOk
        ELSE exit.kind = "Err" /\ exit.code = stat.v


\* the identifiers of the lines printed, in order
PrintedIds == [j \in 1..Len(stdout) |-> stdout[j].id]

\* a listing run that was answered with a document
ListingAnswered ==
    /\ pc \in {"print_live", "print_replays", "exited"}
    /\ args.list \/ args.replays
    /\ listing.kind = "Body"

\* C13: on the listing path, when the call is answered but an item of the
\* answer lacks its air date, the other items are printed all the same; the
\* listing fails as a whole only when the call itself fails.
C13_ItemFailureIsLocal ==
    /\ (pc = "exited" /\ listing.kind = "Failed") => (exit.kind = "Err" /\ stdout = <<>>)
    /\ (pc = "exited" /\ ListingAnswered) =>
          /\ \A i \in 1..Len(listing.v) :
                listing.v[i].airDate.kind = "Some"
                    => \E j \in 1..Len(stdout) : stdout[j].id = listing.v[i].id
          /\ exit.msg # "missing field airDate"

\* C14: every line the listing path prints is the line of an item of the
\* answer whose isVideo is true; the items whose isVideo is false are never
\* printed.
C14_OnlyVideosListed ==
    ListingAnswered =>
        LET IsVideo(x) == x.isVideo
            videos == SelectSeq(listing.v, IsVideo)
        IN  /\ Len(stdout) <= Len(videos)
            /\ \A j \in 1..Len(stdout) : stdout[j].id = videos[j].id


\* the requests of a run of the playable-URL path, in their fixed order: the
\* order request, the SMIL request, the playlist request; each needs the
\* result of the one before
StagesInOrder ==
    (pc # "idle" /\ ~args.list /\ ~args.replays) =>
        /\ Len(requests) <= (IF args.trust THEN 2 ELSE 3)
        /\ Len(requests) >= 1 => (id.kind = "Ok" /\ requests[1].url = OrderUrl(id.v))
        /\ Len(requests) >= 2
              => (bistro.kind = "Ok" /\ desc.kind = "Ok" /\ requests[2].url = desc.v.key)
        /\ Len(requests) >= 3
              => (master_playlist # <<>> /\ requests[3].url = master_playlist)
        /\ stream.kind = "Ok" => Len(requests) = (IF args.trust THEN 2 ELSE 3)
        /\ stdout # <<>> => (stream.kind = "Ok" /\ args.no_run /\ stdout = <<stream.v>>)

\* the player is run once at most, after every stage succeeded, without
\* --no-run
SpawnedLast ==
    (pc # "idle" /\ spawned # <<>>) =>
        /\ Len(spawned) = 1
        /\ ~args.no_run
        /\ stream.kind = "Ok"
        /\ spawned[1].stream = stream.v
        /\ stdout = <<>>
        /\ pc \in {"status", "exited"}

\* a run that ended, and a run that started the player, make no request, print
\* nothing and start nothing any more
NothingAfterTheEnd ==
    (pc = "exited" \/ spawned # <<>>)
        => (requests' = requests /\ stdout' = stdout /\ spawned' = spawned)

\* C15: on the playable-URL path the stages come in the order order request,
\* SMIL request, then unless --trust-streamlink the playlist request and the
\* choice of the variant, then the output; each is tried once; after the first
\* that fails no later one runs; the player is started once at most, after
\* every stage succeeded, without --no-run, as the last thing the run does.
C15_StagesOnceInOrder ==
    [](StagesInOrder /\ SpawnedLast) /\ [][NothingAfterTheEnd]_vars

\* a whole run: three requests, then the player, which exits with 0
C15_Witness ==
    /\ pc = "exited"
    /\ exit = ExitOk
    /\ Len(requests) = 3
    /\ Len(spawned) = 1
    /\ stat.kind = "Some"


\* the places in the playlist of the variant streams of the highest bandwidth
TiedMaxima ==
    {i \in 1..Len(playlist.variant_streams) :
        \A j \in 1..Len(playlist.variant_streams) :
            playlist.variant_streams[i].bandwidth >= playlist.variant_streams[j].bandwidth}

\* parse_master_playlist has run on a playlist with variant streams
ParsedWithVariants ==
    /\ best.kind # "NotRun"
    /\ playlist.wellformed
    /\ playlist.variant_streams # <<>>

\* C16 as written: when several variant streams tie for the highest
\* bandwidth, parse_master_playlist does not fail and returns the URI of the
\* tied one that comes first in the playlist.
C16_FirstTiedMaximum ==
    ParsedWithVariants =>
        /\ best.kind = "Ok"
        /\ best.v = playlist.variant_streams[
                        CHOOSE i \in TiedMaxima : \A k \in TiedMaxima : i <= k].uri

\* C16 as amended: it does not fail and returns the URI of the tied one that
\* comes last in the playlist; the result is a function of the playlist.
C16_LastTiedMaximum ==
    ParsedWithVariants =>
        /\ best.kind = "Ok"
        /\ best.v = playlist.variant_streams[
                        CHOOSE i \in TiedMaxima : \A k \in TiedMaxima : i >= k].uri
        /\ best = parse_master_playlist(playlist)

\* two variant streams of the highest bandwidth and of different URIs, before
\* a lower one: the URI of the second is returned
C16_Witness ==
    /\ playlist.wellformed
    /\ Len(playlist.variant_streams) = 3
    /\ TiedMaxima = {1, 2}
    /\ playlist.variant_streams[1].uri # playlist.variant_streams[2].uri
    /\ best.kind = "Ok"
    /\ best.v = playlist.variant_streams[2].uri

====
